---------------------------- MODULE Spec2Model ----------------------------
(***************************************************************************)
(* Model of the hogwild crate: HogwildArray<A, D>, a reference-counted     *)
(* handle (Arc<UnsafeCell<Array<A, D>>>) whose clones hand out views of    *)
(* one shared ndarray buffer without mutual exclusion, and Hogwild<T>, the *)
(* same sharing strategy for a single value.                               *)
(*                                                                         *)
(* Every handle is held by one worker.  Workers run concurrently (the      *)
(* handle is Send + Sync), so the actions of different handles interleave  *)
(* freely.  An element is ElemWords machine words wide; an element store   *)
(* or load is either one indivisible step or a word-by-word sequence, the  *)
(* two outcomes an unsynchronised access to a generic element type can     *)
(* have.                                                                   *)
(***************************************************************************)
EXTENDS Integers, Sequences, FiniteSets, TLC

\* ------------------------------------------------------------- bounds
\* Number of handle slots (the original handle and its clones).
MaxHandles == 2
\* Number of heap allocations that can exist.
MaxAllocs == 2
\* Read views one handle lends out at the same time.
MaxReadViews == 1
\* Width of an element in machine words.
ElemWords == 2
\* Number of values one machine word can hold.
WordBase == 3
\* Bit patterns the workers write: Pattern(1) .. Pattern(MaxVal), and
\* Pattern(1) .. Pattern(MaxRaceVal) where the stores race.
MaxVal == 1
MaxRaceVal == 2
\* Values the workers assign to the cell: 1 .. MaxCellVal.
MaxCellVal == 2
\* Largest axis and index a sub-view request is made with.
MaxAxis == 2
MaxIndex == 2
\* Largest step between the elements an Array keeps of its storage.
MaxStep == 2
\* Increments one worker makes, and the largest element the buffer to be
\* incremented is constructed with.
MaxIncs == 1
MaxStart == 2
\* Resolution of the numbers safe_ln is called with: representable values per
\* NEGATIVE_TOLERANCE.
LnGrid == 10
\* Arguments of safe_ln: within MaxLnInput representable values of 0.0 and
\* of 1.0 - NEGATIVE_TOLERANCE.
MaxLnInput == 30

Handles == 1..MaxHandles
Allocs == 1..MaxAllocs

\* Shapes of the buffers handed to the constructor.
Shapes == {<<1, 2>>}
\* Shape of the buffer whose slice is taken.
SliceShapes == {<<2, 2>>}

VARIABLES
    ptr,        \* ptr[h]: the allocation handle h's Arc points to, or Null
    allocated,  \* allocated[a]: allocation a exists
    strong,     \* strong[a]: the strong count of a's Arc
    deallocs,   \* deallocs[a]: how often a has been freed
    shape,      \* shape[a]: extents of the Array in a (its dimension D)
    data,       \* data[a]: the elements of the Array in a, by coordinate
    mview,      \* mview[h]: the ArrayViewMut borrowed from h, or NoView
    rviews,     \* rviews[h]: the ArrayViews borrowed from h
    op,         \* op[h]: the element access h's worker is in the middle of
    panicked,   \* panicked[h]: h's worker is unwinding from a panic
    ret,        \* what the step just taken returned to its caller
    written,    \* history: written[a][c] = the values whose store to
                \* coordinate c of a has begun
    strides,    \* strides[a]: the memory stride of each axis of the Array in a
    initial,    \* history: initial[a] = the elements a was constructed with
    incs        \* history: incs[h] = the increments h's worker has begun

\* The Hogwild<T> cell.
VARIABLES
    cptr,       \* cptr[h]: the allocation cell handle h's Arc points to, or Null
    callocated, \* callocated[a]: cell allocation a exists
    cstrong,    \* cstrong[a]: the strong count of a's Arc
    cval,       \* cval[a]: the value of type T in a
    cop,        \* cop[h]: the access to the cell h's worker is in the middle of
    cret,       \* what the step just taken on the cell returned
    clast       \* history: the store to the cell that began last

\* finalfrontier::util.
VARIABLES
    lnArg,      \* the argument safe_ln is called with
    lnRes       \* what safe_ln returned, or NoRet before the call

arrayVars == <<ptr, allocated, strong, deallocs, shape, data, mview, rviews,
               op, panicked, ret, written, strides, initial, incs>>

cellVars == <<cptr, callocated, cstrong, cval, cop, cret, clast>>

utilVars == <<lnArg, lnRes>>

vars == <<arrayVars, cellVars, utilVars>>

\* ------------------------------------------------------------- elements
\* Word i (1 = least significant) of element value v.
WordOf(v, i) == (v \div (WordBase ^ (i - 1))) % WordBase

\* Element value v with word i replaced by word value w.
SetWord(v, i, w) ==
    v - WordOf(v, i) * (WordBase ^ (i - 1)) + w * (WordBase ^ (i - 1))

\* Word i of the k-th bit pattern the workers write: never the zero word,
\* and different from the same word of the other patterns.
PatternWord(k, i) == ((k + i - 2) % (WordBase - 1)) + 1

RECURSIVE PatternUpTo(_, _)
\* The n lowest words of the k-th pattern, as an element value.
PatternUpTo(k, n) ==
    IF n = 0 THEN 0
    ELSE PatternUpTo(k, n - 1) + PatternWord(k, n) * (WordBase ^ (n - 1))

\* The k-th bit pattern the workers write.
Pattern(k) == PatternUpTo(k, ElemWords)

WriteVals == {Pattern(k) : k \in 1..MaxVal}
RaceVals == {Pattern(k) : k \in 1..MaxRaceVal}

\* Array2::zeros: the element every coordinate holds after construction.
Zero == 0

\* ------------------------------------------------------------- shapes
Max(S) == CHOOSE x \in S : \A y \in S : y <= x

\* All coordinates (0-based, one index per axis) of an array of extents sh.
Coords(sh) ==
    IF Len(sh) = 0 THEN {<<>>}
    ELSE {c \in [1..Len(sh) -> 0..(Max({sh[k] : k \in 1..Len(sh)}) - 1)] :
            \A k \in 1..Len(sh) : c[k] < sh[k]}

\* Dimension::remove_axis: the extents without axis a (0-based).
RemoveAxis(sh, a) ==
    [k \in 1..(Len(sh) - 1) |-> IF k <= a THEN sh[k] ELSE sh[k + 1]]

\* The buffer coordinate of position p of the sub-view fixing axis a at i.
InsertAxis(p, a, i) ==
    [k \in 1..(Len(p) + 1) |->
        IF k <= a THEN p[k] ELSE IF k = a + 1 THEN i ELSE p[k - 1]]

RECURSIVE ProdFrom(_, _)
\* The product of the extents of axes k, k + 1, ... (1-based) of sh.
ProdFrom(sh, k) == IF k > Len(sh) THEN 1 ELSE sh[k] * ProdFrom(sh, k + 1)

RECURSIVE ProdUpTo(_, _)
\* The product of the extents of axes 1 .. k of sh.
ProdUpTo(sh, k) == IF k = 0 THEN 1 ELSE sh[k] * ProdUpTo(sh, k - 1)

\* The strides of a column-major Array of extents sh.
FortranStrides(sh) == [k \in 1..Len(sh) |-> ProdUpTo(sh, k - 1)]

\* Dimension::default_strides: the strides of a row-major Array of extents
\* sh, in elements.
DefaultStrides(sh) == [k \in 1..Len(sh) |-> ProdFrom(sh, k + 1)]

\* The strides an owned Array of extents sh can have: the default ones, and
\* those of an Array holding every s-th element of a wider one.
Layouts(sh) ==
    {[k \in 1..Len(sh) |-> s * DefaultStrides(sh)[k]] : s \in 1..MaxStep}

\* ArrayBase::is_standard_layout: the strides are the default ones on every
\* axis of extent other than 1.
IsStandardLayout(sh, st) ==
    \A k \in 1..Len(sh) : sh[k] # 1 => st[k] = DefaultStrides(sh)[k]

\* The memory offset, in elements, of coordinate c under strides st.
RECURSIVE OffsetFrom(_, _, _)
OffsetFrom(st, c, k) ==
    IF k > Len(c) THEN 0 ELSE c[k] * st[k] + OffsetFrom(st, c, k + 1)

Offset(st, c) == OffsetFrom(st, c, 1)

\* The shapes a view of one of the buffers can have.
ViewShapes ==
    Shapes \cup SliceShapes
           \cup {RemoveAxis(sh, a) : sh \in Shapes, a \in 0..(MaxAxis - 1)}

\* Coords, tabulated for the shapes that occur.
CoordsOf == [sh \in ViewShapes |-> Coords(sh)]

\* ------------------------------------------------------------- views
Null == 0
NoView == <<>>
FullView == <<"full">>
SubView(a, i) == <<"sub", a, i>>
NoRet == <<>>

\* A bounds check that lets the index one past the end through.
InBoundsInclusive(sh, a, i) == a < Len(sh) /\ i <= sh[a + 1]

\* ndarray's check in subview/subview_mut: the axis exists and the index is
\* within its extent.
InBounds(sh, a, i) == a < Len(sh) /\ i < sh[a + 1]

\* The positions a view v of an array of extents sh is indexed with.
ViewCoords(sh, v) ==
    IF v[1] = "full" THEN CoordsOf[sh] ELSE CoordsOf[RemoveAxis(sh, v[2])]

\* A sub-view that always starts at index 0 of its axis.
BufCoordAtOrigin(v, p) ==
    IF v[1] = "full" THEN p ELSE InsertAxis(p, v[2], 0)

\* The buffer coordinate that position p of view v refers to.
BufCoord(v, p) ==
    IF v[1] = "full" THEN p ELSE InsertAxis(p, v[2], v[3])

\* as_ref / as_mut: the Array behind handle h, self.0.as_ref().get().
Target(h) == ptr[h]

\* The element at the mirrored position: a view whose axes run backwards.
PeekMirrored(h, v, p) ==
    LET c == BufCoord(v, p)
        sh == shape[Target(h)]
    IN  data[Target(h)][[k \in 1..Len(c) |-> sh[k] - 1 - c[k]]]

\* as_ref: the element at position p of view v of handle h.
Peek(h, v, p) == data[Target(h)][BufCoord(v, p)]

\* A store that lands in a private copy of the Array (copy on write).
StoreToCopy(a, c, x) == data

\* A store that fills the whole Array with the value.
StoreFilling(a, c, x) == [data EXCEPT ![a] = [d \in DOMAIN @ |-> x]]

\* as_mut: the reference aliases the shared Array, so a store through it
\* changes the Array itself.
Store(a, c, x) == [data EXCEPT ![a][c] = x]

\* ------------------------------------------------------------- borrows
Idle == [pc |-> "idle"]

\* A &self method may be called: no ArrayViewMut borrowed from h is alive.
SharedBorrowOk(h) == mview[h] = NoView

\* A &mut self method that may be called whatever is borrowed from h.
ExclBorrowLax(h) == TRUE

\* A &mut self method may be called: nothing borrowed from h is alive.
ExclBorrowOk(h) == mview[h] = NoView /\ rviews[h] = {}

\* Views whose lifetime is not bound to the handle.
CanDropUnbound(h) == TRUE

\* h may be moved or dropped: every view's lifetime is bound to the handle
\* it was borrowed from, so none is alive.
CanDrop(h) == mview[h] = NoView /\ rviews[h] = {}

\* Slot h holds a handle.
Live(h) == ptr[h] # Null

\* h's worker is between operations and not unwinding.
Ready(h) == Live(h) /\ op[h] = Idle /\ ~panicked[h]

\* ------------------------------------------------------------- Init
\* T::default() for the cell's value type (usize in the crate's test).
Default == Zero

\* The history before any store to the cell.
NoWrite == [by |-> Null, val |-> Default, alone |-> TRUE]

\* Hogwild::default(): Arc::new, one handle, strong count 1, T's default.
CellInit ==
    /\ cptr = [h \in Handles |-> IF h = 1 THEN 1 ELSE Null]
    /\ callocated = [a \in Allocs |-> a = 1]
    /\ cstrong = [a \in Allocs |-> IF a = 1 THEN 1 ELSE 0]
    /\ cval = [a \in Allocs |-> Default]
    /\ cop = [h \in Handles |-> Idle]
    /\ cret = NoRet
    /\ clast = NoWrite

\* From<Array<A, D>>: Arc::new, one handle, strong count 1, the buffer as
\* passed in: every element fill, the strides those of the Array.
ArrayFrom(shs, fill) ==
    /\ ptr = [h \in Handles |-> IF h = 1 THEN 1 ELSE Null]
    /\ allocated = [a \in Allocs |-> a = 1]
    /\ strong = [a \in Allocs |-> IF a = 1 THEN 1 ELSE 0]
    /\ deallocs = [a \in Allocs |-> 0]
    /\ \E sh \in shs : \E st \in Layouts(sh) :
         /\ shape = [a \in Allocs |-> IF a = 1 THEN sh ELSE <<>>]
         /\ strides = [a \in Allocs |-> IF a = 1 THEN st ELSE <<>>]
         /\ data = [a \in Allocs |->
                      IF a = 1 THEN [c \in CoordsOf[sh] |-> fill] ELSE <<>>]
         /\ initial = [a \in Allocs |->
                         IF a = 1 THEN [c \in CoordsOf[sh] |-> fill] ELSE <<>>]
         /\ written = [a \in Allocs |->
                         IF a = 1 THEN [c \in CoordsOf[sh] |-> {}] ELSE <<>>]
    /\ mview = [h \in Handles |-> NoView]
    /\ rviews = [h \in Handles |-> {}]
    /\ op = [h \in Handles |-> Idle]
    /\ panicked = [h \in Handles |-> FALSE]
    /\ ret = NoRet
    /\ incs = [h \in Handles |-> <<>>]

\* Array2::zeros(..).into(), as in the crate's test and example.
ArrayInit == ArrayFrom(Shapes, Zero)

\* safe_ln has not been called.
UtilInit == lnArg = 0 /\ lnRes = NoRet

Init == ArrayInit /\ CellInit /\ UtilInit

\* ------------------------------------------------------------- handles
\* Clone as a copy of the Array into an allocation b of its own.
CloneDeep(h, g) ==
    /\ Ready(h) /\ SharedBorrowOk(h)
    /\ ~Live(g)
    /\ \E b \in Allocs :
         /\ ~allocated[b] /\ deallocs[b] = 0
         /\ ptr' = [ptr EXCEPT ![g] = b]
         /\ allocated' = [allocated EXCEPT ![b] = TRUE]
         /\ strong' = [strong EXCEPT ![b] = 1]
         /\ shape' = [shape EXCEPT ![b] = shape[ptr[h]]]
         /\ data' = [data EXCEPT ![b] = data[ptr[h]]]
         /\ written' = [written EXCEPT ![b] = written[ptr[h]]]
         /\ strides' = [strides EXCEPT ![b] = strides[ptr[h]]]
         /\ initial' = [initial EXCEPT ![b] = initial[ptr[h]]]
    /\ ret' = NoRet
    /\ UNCHANGED <<cellVars, utilVars, incs>>
    /\ UNCHANGED <<deallocs, mview, rviews, op, panicked>>

\* #[derive(Clone)]: Arc::clone, the strong count goes up by one and the new
\* handle g points to the same allocation.
Clone(h, g) ==
    /\ Ready(h) /\ SharedBorrowOk(h)
    /\ ~Live(g)
    /\ ptr' = [ptr EXCEPT ![g] = ptr[h]]
    /\ strong' = [strong EXCEPT ![ptr[h]] = @ + 1]
    /\ ret' = NoRet
    /\ UNCHANGED <<cellVars, utilVars, strides, initial, incs>>
    /\ UNCHANGED <<allocated, deallocs, shape, data, mview, rviews, op,
                   panicked, written>>

\* A drop that frees the allocation whatever the strong count.
DropOwning(h) ==
    /\ Live(h) /\ op[h] = Idle
    /\ CanDrop(h)
    /\ LET a == ptr[h]
       IN  /\ strong' = [strong EXCEPT ![a] = @ - 1]
           /\ allocated' = [allocated EXCEPT ![a] = FALSE]
           /\ deallocs' = [deallocs EXCEPT ![a] = @ + 1]
    /\ ptr' = [ptr EXCEPT ![h] = Null]
    /\ panicked' = [panicked EXCEPT ![h] = FALSE]
    /\ ret' = NoRet
    /\ UNCHANGED <<cellVars, utilVars, strides, initial, incs>>
    /\ UNCHANGED <<shape, data, mview, rviews, op, written>>

\* Dropping the handle drops its Arc: the strong count goes down by one and
\* the allocation is freed when it reaches zero.
Drop(h) ==
    /\ Live(h) /\ op[h] = Idle
    /\ CanDrop(h)
    /\ LET a == ptr[h]
           last == strong[a] - 1 = 0
       IN  /\ strong' = [strong EXCEPT ![a] = @ - 1]
           /\ allocated' = [allocated EXCEPT ![a] = IF last THEN FALSE ELSE @]
           /\ deallocs' = [deallocs EXCEPT ![a] = IF last THEN @ + 1 ELSE @]
    /\ ptr' = [ptr EXCEPT ![h] = Null]
    /\ panicked' = [panicked EXCEPT ![h] = FALSE]
    /\ ret' = NoRet
    /\ UNCHANGED <<cellVars, utilVars, strides, initial, incs>>
    /\ UNCHANGED <<shape, data, mview, rviews, op, written>>

\* ------------------------------------------------------------- views
\* view(&self): a read view of the whole buffer.
View(h) ==
    /\ Ready(h) /\ SharedBorrowOk(h)
    /\ Cardinality(rviews[h]) < MaxReadViews
    /\ FullView \notin rviews[h]
    /\ rviews' = [rviews EXCEPT ![h] = @ \cup {FullView}]
    /\ ret' = NoRet
    /\ UNCHANGED <<cellVars, utilVars, strides, initial, incs>>
    /\ UNCHANGED <<ptr, allocated, strong, deallocs, shape, data, mview, op,
                   panicked, written>>

\* view_mut behind a writer lock: refused while another handle lends a view.
ViewMutExclusive(h) ==
    /\ Ready(h) /\ ExclBorrowOk(h)
    /\ \A g \in Handles \ {h} : mview[g] = NoView /\ rviews[g] = {}
    /\ mview' = [mview EXCEPT ![h] = FullView]
    /\ ret' = NoRet
    /\ UNCHANGED <<cellVars, utilVars, strides, initial, incs>>
    /\ UNCHANGED <<ptr, allocated, strong, deallocs, shape, data, rviews, op,
                   panicked, written>>

\* view_mut(&mut self): a mutable view of the whole buffer.  Nothing in it
\* looks at the views of other handles.
ViewMut(h) ==
    /\ Ready(h) /\ ExclBorrowOk(h)
    /\ mview' = [mview EXCEPT ![h] = FullView]
    /\ ret' = NoRet
    /\ UNCHANGED <<cellVars, utilVars, strides, initial, incs>>
    /\ UNCHANGED <<ptr, allocated, strong, deallocs, shape, data, rviews, op,
                   panicked, written>>

\* subview(&self, axis, index): a read view of the elements whose coordinate
\* on axis is index; panics when axis or index is out of bounds.
Subview(h, a, i) ==
    /\ Ready(h) /\ SharedBorrowOk(h)
    /\ IF InBounds(shape[Target(h)], a, i)
       THEN /\ Cardinality(rviews[h]) < MaxReadViews
            /\ SubView(a, i) \notin rviews[h]
            /\ rviews' = [rviews EXCEPT ![h] = @ \cup {SubView(a, i)}]
            /\ ret' = NoRet
            /\ UNCHANGED panicked
       ELSE /\ panicked' = [panicked EXCEPT ![h] = TRUE]
            /\ ret' = <<"panic">>
            /\ UNCHANGED rviews
    /\ UNCHANGED <<cellVars, utilVars, strides, initial, incs>>
    /\ UNCHANGED <<ptr, allocated, strong, deallocs, shape, data, mview, op,
                   written>>

\* subview_mut that collapses the Array itself onto the sub-view.
SubviewMutInPlace(h, a, i) ==
    /\ Ready(h) /\ ExclBorrowOk(h)
    /\ IF InBounds(shape[Target(h)], a, i)
       THEN /\ mview' = [mview EXCEPT ![h] = FullView]
            /\ shape' = [shape EXCEPT ![Target(h)] = RemoveAxis(@, a)]
            /\ ret' = NoRet
            /\ UNCHANGED panicked
       ELSE /\ panicked' = [panicked EXCEPT ![h] = TRUE]
            /\ ret' = <<"panic">>
            /\ UNCHANGED <<mview, shape>>
    /\ UNCHANGED <<cellVars, utilVars, strides, initial, incs>>
    /\ UNCHANGED <<ptr, allocated, strong, deallocs, data, rviews, op,
                   written>>

\* subview_mut(&mut self, axis, index): the mutable counterpart.
SubviewMut(h, a, i) ==
    /\ Ready(h) /\ ExclBorrowOk(h)
    /\ IF InBounds(shape[Target(h)], a, i)
       THEN /\ mview' = [mview EXCEPT ![h] = SubView(a, i)]
            /\ ret' = NoRet
            /\ UNCHANGED panicked
       ELSE /\ panicked' = [panicked EXCEPT ![h] = TRUE]
            /\ ret' = <<"panic">>
            /\ UNCHANGED mview
    /\ UNCHANGED <<cellVars, utilVars, strides, initial, incs>>
    /\ UNCHANGED <<ptr, allocated, strong, deallocs, shape, data, rviews, op,
                   written>>

\* A read view goes out of scope.
ReleaseView(h, v) ==
    /\ Live(h) /\ op[h] = Idle
    /\ v \in rviews[h]
    /\ rviews' = [rviews EXCEPT ![h] = @ \ {v}]
    /\ ret' = NoRet
    /\ UNCHANGED <<cellVars, utilVars, strides, initial, incs>>
    /\ UNCHANGED <<ptr, allocated, strong, deallocs, shape, data, mview, op,
                   panicked, written>>

\* The mutable view goes out of scope.
ReleaseViewMut(h) ==
    /\ Live(h) /\ op[h] = Idle
    /\ mview[h] # NoView
    /\ mview' = [mview EXCEPT ![h] = NoView]
    /\ ret' = NoRet
    /\ UNCHANGED <<cellVars, utilVars, strides, initial, incs>>
    /\ UNCHANGED <<ptr, allocated, strong, deallocs, shape, data, rviews, op,
                   panicked, written>>

\* ------------------------------------------------------------- elements
\* The views h's worker can index: what it borrowed from its handle.
ViewsOf(h) == rviews[h] \cup (IF mview[h] = NoView THEN {} ELSE {mview[h]})

\* Some worker other than h is in the middle of a store to coordinate c of
\* allocation a.
OtherStoring(h, a, c) ==
    \E g \in Handles \ {h} :
        op[g].pc = "write" /\ op[g].alloc = a /\ op[g].coord = c

\* op after a store to c of a by h has begun: the stores to it that this one
\* overlaps are no longer alone.
Overlap(h, a, c) ==
    [g \in Handles |->
        IF g # h /\ op[g].pc = "write" /\ op[g].alloc = a /\ op[g].coord = c
        THEN [op[g] EXCEPT !.alone = FALSE]
        ELSE op[g]]

\* view_mut()[p] = v, compiled to one store per word: the store begins.
BeginWrite(h, p, v) ==
    /\ Ready(h) /\ mview[h] # NoView
    /\ p \in ViewCoords(shape[Target(h)], mview[h])
    /\ LET a == Target(h)
           c == BufCoord(mview[h], p)
       IN  /\ op' = [Overlap(h, a, c) EXCEPT ![h] =
                        [pc |-> "write", alloc |-> a, coord |-> c, val |-> v,
                         next |-> 1, alone |-> ~OtherStoring(h, a, c)]]
           /\ written' = [written EXCEPT ![a][c] = @ \cup {v}]
    /\ ret' = NoRet
    /\ UNCHANGED <<cellVars, utilVars, strides, initial, incs>>
    /\ UNCHANGED <<ptr, allocated, strong, deallocs, shape, data, mview,
                   rviews, panicked>>

\* A store that waits while another worker is storing to the same Array.
StoreWordWaiting(h) ==
    /\ Live(h) /\ op[h].pc = "write"
    /\ \A g \in Handles \ {h} : op[g].pc # "write"
    /\ LET a == op[h].alloc
           c == op[h].coord
           i == op[h].next
       IN  /\ data' = Store(a, c, SetWord(data[a][c], i, WordOf(op[h].val, i)))
           /\ op' = [op EXCEPT ![h] =
                        IF i = ElemWords THEN Idle ELSE [@ EXCEPT !.next = i + 1]]
    /\ ret' = NoRet
    /\ UNCHANGED <<cellVars, utilVars, strides, initial, incs>>
    /\ UNCHANGED <<ptr, allocated, strong, deallocs, shape, mview, rviews,
                   panicked, written>>

\* The next word of the element is stored; after the last one the
\* assignment is complete.
StoreWord(h) ==
    /\ Live(h) /\ op[h].pc = "write"
    /\ LET a == op[h].alloc
           c == op[h].coord
           i == op[h].next
       IN  /\ data' = Store(a, c, SetWord(data[a][c], i, WordOf(op[h].val, i)))
           /\ op' = [op EXCEPT ![h] =
                        IF i = ElemWords THEN Idle ELSE [@ EXCEPT !.next = i + 1]]
    /\ ret' = NoRet
    /\ UNCHANGED <<cellVars, utilVars, strides, initial, incs>>
    /\ UNCHANGED <<ptr, allocated, strong, deallocs, shape, mview, rviews,
                   panicked, written>>

\* view_mut()[p] = v, compiled to a single store of the whole element.
WriteElem(h, p, v) ==
    /\ Ready(h) /\ mview[h] # NoView
    /\ p \in ViewCoords(shape[Target(h)], mview[h])
    /\ LET a == Target(h)
           c == BufCoord(mview[h], p)
       IN  /\ data' = Store(a, c, v)
           /\ op' = Overlap(h, a, c)
           /\ written' = [written EXCEPT ![a][c] = @ \cup {v}]
    /\ ret' = NoRet
    /\ UNCHANGED <<cellVars, utilVars, strides, initial, incs>>
    /\ UNCHANGED <<ptr, allocated, strong, deallocs, shape, mview, rviews,
                   panicked>>

\* view[p], compiled to one load per word: the load begins.
BeginRead(h, v, p) ==
    /\ Ready(h) /\ v \in ViewsOf(h)
    /\ p \in ViewCoords(shape[Target(h)], v)
    /\ op' = [op EXCEPT ![h] =
                [pc |-> "read", alloc |-> Target(h), coord |-> BufCoord(v, p),
                 acc |-> 0, next |-> 1]]
    /\ ret' = NoRet
    /\ UNCHANGED <<cellVars, utilVars, strides, initial, incs>>
    /\ UNCHANGED <<ptr, allocated, strong, deallocs, shape, data, mview,
                   rviews, panicked, written>>

\* The next word of the element is loaded; after the last one the value
\* read is returned.
LoadWord(h) ==
    /\ Live(h) /\ op[h].pc = "read"
    /\ LET a == op[h].alloc
           c == op[h].coord
           i == op[h].next
           x == SetWord(op[h].acc, i, WordOf(data[a][c], i))
       IN  IF i = ElemWords
           THEN /\ op' = [op EXCEPT ![h] = Idle]
                /\ ret' = <<"value", a, c, x>>
           ELSE /\ op' = [op EXCEPT ![h] = [@ EXCEPT !.acc = x, !.next = i + 1]]
                /\ ret' = NoRet
    /\ UNCHANGED <<cellVars, utilVars, strides, initial, incs>>
    /\ UNCHANGED <<ptr, allocated, strong, deallocs, shape, data, mview,
                   rviews, panicked, written>>

\* view[p], compiled to a single load of the whole element.
ReadElem(h, v, p) ==
    /\ Ready(h) /\ v \in ViewsOf(h)
    /\ p \in ViewCoords(shape[Target(h)], v)
    /\ LET a == Target(h)
           c == BufCoord(v, p)
       IN  ret' = <<"value", a, c, Peek(h, v, p)>>
    /\ UNCHANGED <<cellVars, utilVars, strides, initial, incs>>
    /\ UNCHANGED <<ptr, allocated, strong, deallocs, shape, data, mview,
                   rviews, op, panicked, written>>

\* The slice over the memory of a contiguous Array: its k-th element is the
\* element stored at memory offset k - 1.
SliceOf(a) ==
    [k \in 1..Cardinality(DOMAIN data[a]) |->
        data[a][CHOOSE c \in DOMAIN data[a] : Offset(strides[a], c) = k - 1]]

\* as_slice(&self): Some of the slice over the Array's memory when the Array
\* is in standard layout, None otherwise.
AsSlice(h) ==
    /\ Ready(h) /\ SharedBorrowOk(h)
    /\ ret' = IF IsStandardLayout(shape[Target(h)], strides[Target(h)])
              THEN <<"some", Target(h), SliceOf(Target(h))>>
              ELSE <<"none", Target(h)>>
    /\ UNCHANGED <<cellVars, utilVars, strides, initial, incs>>
    /\ UNCHANGED <<ptr, allocated, strong, deallocs, shape, data, mview,
                   rviews, op, panicked, written>>

\* ------------------------------------------------------------- Next
\* Positions a view of any shape can be indexed with.
AllPositions == UNION {CoordsOf[sh] : sh \in ViewShapes}

\* The workers share the buffer without synchronisation (unsafe impl Send,
\* Sync): any worker may take the next step.
Next ==
    \E h \in Handles :
        \/ \E g \in Handles : Clone(h, g)
        \/ Drop(h)
        \/ View(h)
        \/ ViewMut(h)
        \/ \E a \in 0..MaxAxis, i \in 0..MaxIndex : Subview(h, a, i)
        \/ \E a \in 0..MaxAxis, i \in 0..MaxIndex : SubviewMut(h, a, i)
        \/ \E v \in rviews[h] : ReleaseView(h, v)
        \/ ReleaseViewMut(h)
        \/ AsSlice(h)
        \/ \E p \in AllPositions, v \in WriteVals : BeginWrite(h, p, v)
        \/ StoreWord(h)
        \/ \E p \in AllPositions, v \in WriteVals : WriteElem(h, p, v)
        \/ \E v \in ViewsOf(h), p \in AllPositions : BeginRead(h, v, p)
        \/ LoadWord(h)
        \/ \E v \in ViewsOf(h), p \in AllPositions : ReadElem(h, v, p)

Spec == Init /\ [][Next]_vars

\* The workers of a training run: each takes views of the whole buffer and
\* reads and updates elements through them, with MaxRaceVal patterns in play.
RaceNext ==
    \E h \in Handles :
        \/ \E g \in Handles : Clone(h, g)
        \/ Drop(h)
        \/ View(h)
        \/ ViewMut(h)
        \/ \E v \in rviews[h] : ReleaseView(h, v)
        \/ ReleaseViewMut(h)
        \/ AsSlice(h)
        \/ \E p \in AllPositions, v \in RaceVals : BeginWrite(h, p, v)
        \/ StoreWord(h)
        \/ \E p \in AllPositions, v \in RaceVals : WriteElem(h, p, v)
        \/ \E v \in ViewsOf(h), p \in AllPositions : BeginRead(h, v, p)
        \/ LoadWord(h)
        \/ \E v \in ViewsOf(h), p \in AllPositions : ReadElem(h, v, p)

RaceSpec == Init /\ [][RaceNext]_vars

\* The crate's test: clones of a handle on a square buffer of zeros store
\* elements through their mutable views and the buffer is read as a slice.
SliceInit == ArrayFrom(SliceShapes, Zero) /\ CellInit /\ UtilInit

SliceNext ==
    \E h \in Handles :
        \/ \E g \in Handles : Clone(h, g)
        \/ ViewMut(h)
        \/ ReleaseViewMut(h)
        \/ \E p \in AllPositions, v \in RaceVals : WriteElem(h, p, v)
        \/ AsSlice(h)

SliceSpec == SliceInit /\ [][SliceNext]_vars

\* ------------------------------------------------------------- Hogwild<T>
CellVals == 1..MaxCellVal

CellLive(h) == cptr[h] # Null

CellReady(h) == CellLive(h) /\ cop[h] = Idle

\* deref / deref_mut: the value behind cell handle h, self.0.as_ref().get().
CellTarget(h) == cptr[h]

\* deref: the value read through h.
CellPeek(h) == cval[CellTarget(h)]

\* Clone as a copy of the value into an allocation b of its own.
CellCloneDeep(h, g) ==
    /\ CellReady(h) /\ ~CellLive(g)
    /\ \E b \in Allocs :
         /\ ~callocated[b]
         /\ cptr' = [cptr EXCEPT ![g] = b]
         /\ callocated' = [callocated EXCEPT ![b] = TRUE]
         /\ cstrong' = [cstrong EXCEPT ![b] = 1]
         /\ cval' = [cval EXCEPT ![b] = cval[cptr[h]]]
    /\ cret' = NoRet
    /\ UNCHANGED <<arrayVars, utilVars>>
    /\ UNCHANGED <<cop, clast>>

\* #[derive(Clone)] on Hogwild: Arc::clone.
CellClone(h, g) ==
    /\ CellReady(h) /\ ~CellLive(g)
    /\ cptr' = [cptr EXCEPT ![g] = cptr[h]]
    /\ cstrong' = [cstrong EXCEPT ![cptr[h]] = @ + 1]
    /\ cret' = NoRet
    /\ UNCHANGED <<arrayVars, utilVars>>
    /\ UNCHANGED <<callocated, cval, cop, clast>>

\* Dropping a cell handle drops its Arc.
CellDrop(h) ==
    /\ CellReady(h)
    /\ LET a == cptr[h]
       IN  /\ cstrong' = [cstrong EXCEPT ![a] = @ - 1]
           /\ callocated' = [callocated EXCEPT ![a] =
                               IF cstrong[a] - 1 = 0 THEN FALSE ELSE @]
    /\ cptr' = [cptr EXCEPT ![h] = Null]
    /\ cret' = NoRet
    /\ UNCHANGED <<arrayVars, utilVars>>
    /\ UNCHANGED <<cval, cop, clast>>

\* Some worker other than h is in the middle of a store to cell a.
CellOtherStoring(h, a) ==
    \E g \in Handles \ {h} : cop[g].pc = "write" /\ cop[g].alloc = a

\* *h = v through deref_mut, compiled to one store per word: it begins.
CellBeginWrite(h, v) ==
    /\ CellReady(h)
    /\ LET a == CellTarget(h)
       IN  /\ cop' = [cop EXCEPT ![h] =
                        [pc |-> "write", alloc |-> a, val |-> v, next |-> 1]]
           /\ clast' = [by |-> h, val |-> v, alone |-> ~CellOtherStoring(h, a)]
    /\ cret' = NoRet
    /\ UNCHANGED <<arrayVars, utilVars>>
    /\ UNCHANGED <<cptr, callocated, cstrong, cval>>

\* The next word of the cell's value is stored.
CellStoreWord(h) ==
    /\ CellLive(h) /\ cop[h].pc = "write"
    /\ LET a == cop[h].alloc
           i == cop[h].next
       IN  /\ cval' = [cval EXCEPT ![a] = SetWord(@, i, WordOf(cop[h].val, i))]
           /\ cop' = [cop EXCEPT ![h] =
                        IF i = ElemWords THEN Idle ELSE [@ EXCEPT !.next = i + 1]]
    /\ cret' = NoRet
    /\ UNCHANGED <<arrayVars, utilVars>>
    /\ UNCHANGED <<cptr, callocated, cstrong, clast>>

\* *h = v through deref_mut, compiled to a single store.
CellWrite(h, v) ==
    /\ CellReady(h)
    /\ LET a == CellTarget(h)
       IN  /\ cval' = [cval EXCEPT ![a] = v]
           /\ clast' = [by |-> h, val |-> v, alone |-> ~CellOtherStoring(h, a)]
    /\ cret' = NoRet
    /\ UNCHANGED <<arrayVars, utilVars>>
    /\ UNCHANGED <<cptr, callocated, cstrong, cop>>

\* *h through deref, compiled to one load per word: it begins.
CellBeginRead(h) ==
    /\ CellReady(h)
    /\ cop' = [cop EXCEPT ![h] =
                 [pc |-> "read", alloc |-> CellTarget(h), acc |-> 0, next |-> 1]]
    /\ cret' = NoRet
    /\ UNCHANGED <<arrayVars, utilVars>>
    /\ UNCHANGED <<cptr, callocated, cstrong, cval, clast>>

\* The next word of the cell's value is loaded; after the last one the value
\* read is returned.
CellLoadWord(h) ==
    /\ CellLive(h) /\ cop[h].pc = "read"
    /\ LET a == cop[h].alloc
           i == cop[h].next
           x == SetWord(cop[h].acc, i, WordOf(cval[a], i))
       IN  IF i = ElemWords
           THEN /\ cop' = [cop EXCEPT ![h] = Idle]
                /\ cret' = <<"value", h, x>>
           ELSE /\ cop' = [cop EXCEPT ![h] = [@ EXCEPT !.acc = x, !.next = i + 1]]
                /\ cret' = NoRet
    /\ UNCHANGED <<arrayVars, utilVars>>
    /\ UNCHANGED <<cptr, callocated, cstrong, cval, clast>>

\* *h through deref, compiled to a single load.
CellRead(h) ==
    /\ CellReady(h)
    /\ cret' = <<"value", h, CellPeek(h)>>
    /\ UNCHANGED <<arrayVars, utilVars>>
    /\ UNCHANGED <<cptr, callocated, cstrong, cval, cop, clast>>

CellNext ==
    \E h \in Handles :
        \/ \E g \in Handles : CellClone(h, g)
        \/ CellDrop(h)
        \/ \E v \in CellVals : CellBeginWrite(h, v)
        \/ CellStoreWord(h)
        \/ \E v \in CellVals : CellWrite(h, v)
        \/ CellBeginRead(h)
        \/ CellLoadWord(h)
        \/ CellRead(h)

CellSpec == Init /\ [][CellNext]_vars

\* ------------------------------------------------------------- increments
\* The number of values an element can hold.
Modulus == WordBase ^ ElemWords

\* x + 1 in the element type.
Bump(x) == (x + 1) % Modulus

\* h's worker may start view_mut()[p] += 1.
CanInc(h, p) ==
    /\ Ready(h) /\ mview[h] # NoView
    /\ p \in ViewCoords(shape[Target(h)], mview[h])
    /\ Len(incs[h]) < MaxIncs

\* incs after the increment h is making turned out not to be made of one
\* load and one store.
Split(h) == [incs EXCEPT ![h][Len(incs[h])].whole = FALSE]

\* The load of an increment, compiled to a single load of the element.
IncLoad(h, p) ==
    /\ CanInc(h, p)
    /\ LET a == Target(h)
           c == BufCoord(mview[h], p)
       IN  /\ op' = [op EXCEPT ![h] =
                        [pc |-> "loaded", alloc |-> a, coord |-> c,
                         val |-> Peek(h, mview[h], p)]]
           /\ incs' = [incs EXCEPT ![h] =
                          Append(@, [alloc |-> a, coord |-> c, whole |-> TRUE])]
    /\ ret' = NoRet
    /\ UNCHANGED <<cellVars, utilVars, strides, initial>>
    /\ UNCHANGED <<ptr, allocated, strong, deallocs, shape, data, mview,
                   rviews, panicked, written>>

\* The load of an increment, compiled to one load per word: it begins.
IncBeginLoad(h, p) ==
    /\ CanInc(h, p)
    /\ LET a == Target(h)
           c == BufCoord(mview[h], p)
       IN  /\ op' = [op EXCEPT ![h] =
                        [pc |-> "incload", alloc |-> a, coord |-> c,
                         acc |-> 0, next |-> 1]]
           /\ incs' = [incs EXCEPT ![h] =
                          Append(@, [alloc |-> a, coord |-> c, whole |-> FALSE])]
    /\ ret' = NoRet
    /\ UNCHANGED <<cellVars, utilVars, strides, initial>>
    /\ UNCHANGED <<ptr, allocated, strong, deallocs, shape, data, mview,
                   rviews, panicked, written>>

\* The next word of the element to increment is loaded.
IncLoadWord(h) ==
    /\ Live(h) /\ op[h].pc = "incload"
    /\ LET a == op[h].alloc
           c == op[h].coord
           i == op[h].next
           x == SetWord(op[h].acc, i, WordOf(data[a][c], i))
       IN  op' = [op EXCEPT ![h] =
                    IF i = ElemWords
                    THEN [pc |-> "loaded", alloc |-> a, coord |-> c, val |-> x]
                    ELSE [@ EXCEPT !.acc = x, !.next = i + 1]]
    /\ ret' = NoRet
    /\ UNCHANGED <<cellVars, utilVars, strides, initial, incs>>
    /\ UNCHANGED <<ptr, allocated, strong, deallocs, shape, data, mview,
                   rviews, panicked, written>>

\* An increment that stores back the element it loaded.
IncStoreStale(h) ==
    /\ Live(h) /\ op[h].pc = "loaded"
    /\ LET a == op[h].alloc
           c == op[h].coord
       IN  /\ data' = Store(a, c, op[h].val)
           /\ op' = [Overlap(h, a, c) EXCEPT ![h] = Idle]
           /\ written' = [written EXCEPT ![a][c] = @ \cup {op[h].val}]
    /\ ret' = NoRet
    /\ UNCHANGED <<cellVars, utilVars, strides, initial, incs>>
    /\ UNCHANGED <<ptr, allocated, strong, deallocs, shape, mview, rviews,
                   panicked>>

\* The store of an increment, compiled to a single store of the element:
\* the element loaded plus one.
IncStore(h) ==
    /\ Live(h) /\ op[h].pc = "loaded"
    /\ LET a == op[h].alloc
           c == op[h].coord
       IN  /\ data' = Store(a, c, Bump(op[h].val))
           /\ op' = [Overlap(h, a, c) EXCEPT ![h] = Idle]
           /\ written' = [written EXCEPT ![a][c] = @ \cup {Bump(op[h].val)}]
    /\ ret' = NoRet
    /\ UNCHANGED <<cellVars, utilVars, strides, initial, incs>>
    /\ UNCHANGED <<ptr, allocated, strong, deallocs, shape, mview, rviews,
                   panicked>>

\* The store of an increment, compiled to one store per word: it begins, and
\* StoreWord carries it out.
IncBeginStore(h) ==
    /\ Live(h) /\ op[h].pc = "loaded"
    /\ LET a == op[h].alloc
           c == op[h].coord
       IN  /\ op' = [Overlap(h, a, c) EXCEPT ![h] =
                        [pc |-> "write", alloc |-> a, coord |-> c,
                         val |-> Bump(op[h].val), next |-> 1,
                         alone |-> ~OtherStoring(h, a, c)]]
           /\ written' = [written EXCEPT ![a][c] = @ \cup {Bump(op[h].val)}]
    /\ incs' = Split(h)
    /\ ret' = NoRet
    /\ UNCHANGED <<cellVars, utilVars, strides, initial>>
    /\ UNCHANGED <<ptr, allocated, strong, deallocs, shape, data, mview,
                   rviews, panicked>>

\* A buffer filled with some element is shared by cloning; each worker takes
\* a mutable view and increments elements through it.
IncInit ==
    /\ \E v \in 0..MaxStart : ArrayFrom(Shapes, v)
    /\ CellInit /\ UtilInit

IncNext ==
    \E h \in Handles :
        \/ \E g \in Handles : Clone(h, g)
        \/ ViewMut(h)
        \/ \E p \in AllPositions : IncLoad(h, p)
        \/ \E p \in AllPositions : IncBeginLoad(h, p)
        \/ IncLoadWord(h)
        \/ IncStore(h)
        \/ IncBeginStore(h)
        \/ StoreWord(h)

IncSpec == IncInit /\ [][IncNext]_vars

\* ------------------------------------------------------------- borrows
\* The handles of both kinds and what is borrowed from them: the workers
\* clone and drop handles, take and release views of the buffer, and assign
\* to the cell through deref_mut.
BorrowNext ==
    \E h \in Handles :
        \/ \E g \in Handles : Clone(h, g)
        \/ Drop(h)
        \/ View(h)
        \/ ViewMut(h)
        \/ \E a \in 0..MaxAxis, i \in 0..MaxIndex : Subview(h, a, i)
        \/ \E a \in 0..MaxAxis, i \in 0..MaxIndex : SubviewMut(h, a, i)
        \/ \E v \in rviews[h] : ReleaseView(h, v)
        \/ ReleaseViewMut(h)
        \/ \E g \in Handles : CellClone(h, g)
        \/ CellDrop(h)
        \/ \E v \in CellVals : CellBeginWrite(h, v)
        \/ CellStoreWord(h)

BorrowSpec == Init /\ [][BorrowNext]_vars

\* ------------------------------------------------------------- util
\* Numbers are counted in representable values: NEGATIVE_TOLERANCE (1e-5) is
\* LnGrid of them and 1.0 is 1e5 times as many.
NEGATIVE_TOLERANCE == LnGrid

One == 100000 * NEGATIVE_TOLERANCE

RECURSIVE HalvingsBelow(_, _)
\* The number of times x (at least thr) can be halved without going below thr.
HalvingsBelow(x, thr) ==
    IF x < 2 * thr THEN 0 ELSE 1 + HalvingsBelow(x \div 2, thr)

RECURSIVE DoublingsTo(_, _)
\* The number of times x (positive, below thr) must be doubled to reach thr.
DoublingsTo(x, thr) ==
    IF x >= thr THEN 0 ELSE 1 + DoublingsTo(2 * x, thr)

\* f32::ln: NaN below zero, negative infinity at zero, and a finite number
\* above, kept as the integer part (rounded down) of its binary logarithm,
\* which has the sign of the natural one.
Ln(x) ==
    IF x < 0 THEN <<"nan">>
    ELSE IF x = 0 THEN <<"-inf">>
    ELSE IF x >= One THEN <<"finite", HalvingsBelow(x, One)>>
    ELSE <<"finite", 0 - DoublingsTo(x, One)>>

\* A logarithm without the tolerance.
SafeLnPlain(v) == Ln(v)

\* safe_ln: (v + NEGATIVE_TOLERANCE).ln().
SafeLn(v) == Ln(v + NEGATIVE_TOLERANCE)

\* The numbers safe_ln is called with.
LnInputs ==
    {d : d \in (0 - MaxLnInput)..MaxLnInput}
        \cup {One - NEGATIVE_TOLERANCE + d : d \in (0 - MaxLnInput)..MaxLnInput}

LnInit == ArrayInit /\ CellInit /\ lnArg \in LnInputs /\ lnRes = NoRet

\* The call of safe_ln returns.
SafeLnCall ==
    /\ lnRes = NoRet
    /\ lnRes' = SafeLn(lnArg)
    /\ UNCHANGED <<arrayVars, cellVars, lnArg>>

LnNext == SafeLnCall

LnSpec == LnInit /\ [][LnNext]_vars

\* ------------------------------------------------------------- claims
\* The handles pointing to allocation a.
HandlesOf(a) == {h \in Handles : ptr[h] = a}

\* No store to coordinate c of allocation a is in progress.
QuietAt(a, c) ==
    \A h \in Handles : ~(op[h].pc = "write" /\ op[h].alloc = a /\ op[h].coord = c)

\* This step completes a store by h of v to coordinate c of a that did not
\* overlap any other store to c.
LandsAlone(h, a, c, v) ==
    \/ /\ op[h].pc = "write" /\ op[h].alone /\ op'[h] = Idle
       /\ op[h].alloc = a /\ op[h].coord = c /\ op[h].val = v
    \/ /\ mview[h] # NoView /\ a = Target(h)
       /\ \E p \in AllPositions : BufCoord(mview[h], p) = c /\ WriteElem(h, p, v)

\* Every handle reads v at coordinate c through each of its views covering c.
SeenByAll(c, v) ==
    \A g \in Handles :
        Live(g) =>
            \A w \in ViewsOf(g) :
                \A p \in ViewCoords(shape[Target(g)], w) :
                    BufCoord(w, p) = c => Peek(g, w, p) = v

\* C1: a store through the mutable view of one handle to a coordinate is what
\* every handle (the original and every clone) reads at that coordinate
\* through its views: whenever a store of v to c completes without
\* overlapping another store to c, every live handle's views covering c show v.
C1_CloneAliasing ==
    [][\A h \in Handles : \A a \in Allocs : \A c \in AllPositions :
         \A v \in WriteVals :
            LandsAlone(h, a, c, v) => SeenByAll(c, v)']_vars

\* C1 witness: a clone holds a read view while another handle holds a mutable
\* view, and a read has just returned a written pattern.
C1_Witness ==
    \E h, g \in Handles :
        /\ h # g /\ mview[h] # NoView /\ rviews[g] # {}
        /\ Len(ret) = 4 /\ ret[1] = "value" /\ ret[4] = Pattern(1)

\* No store to any coordinate of allocation a is in progress.
Quiet(a) == \A h \in Handles : ~(op[h].pc = "write" /\ op[h].alloc = a)

\* The stores made to allocation a so far, as <<coordinate, value>> pairs.
Writes(a) ==
    UNION {{<<c, v>> : v \in written[a][c]} : c \in DOMAIN written[a]}

\* No coordinate of a has been the target of two different stores.
Disjoint(a) ==
    \A w1, w2 \in Writes(a) : w1[1] = w2[1] => w1 = w2

\* Every order in which the stores of W can be applied one after the other.
Orders(W) ==
    {s \in [1..Cardinality(W) -> W] : \A w \in W : \E k \in DOMAIN s : s[k] = w}

RECURSIVE ApplySeq(_, _)
\* The buffer after the stores of sequence s are applied to buf in order.
ApplySeq(buf, s) ==
    IF Len(s) = 0 THEN buf
    ELSE ApplySeq([buf EXCEPT ![s[1][1]] = s[1][2]], Tail(s))

\* The buffer of allocation a as constructed.
InitialBuf(a) == [c \in DOMAIN data[a] |-> Zero]

\* C2: when the concurrent writers have stored to pairwise different
\* coordinates and no store is in progress, the buffer equals the result of
\* applying those stores one after the other, in whichever order.
C2_DisjointWritesSequential ==
    \A a \in Allocs :
        (allocated[a] /\ Quiet(a) /\ Disjoint(a)) =>
            \A s \in Orders(Writes(a)) : data[a] = ApplySeq(InitialBuf(a), s)

\* C2 witness: two handles hold mutable views, two coordinates have each
\* received a different pattern, and all stores are complete.
C2_Witness ==
    \E a \in Allocs : \E h, g \in Handles : \E c1, c2 \in DOMAIN data[a] :
        /\ allocated[a] /\ Quiet(a) /\ Disjoint(a)
        /\ h # g /\ mview[h] # NoView /\ mview[g] # NoView
        /\ c1 # c2
        /\ written[a][c1] = {Pattern(1)} /\ written[a][c2] = {Pattern(2)}

\* C3 as stated: once two distinct values have been stored to one coordinate
\* and no store to it is in progress, the coordinate holds one of the two.
C3_OneOfTheTwo ==
    \A a \in Allocs : \A c \in DOMAIN data[a] :
        (allocated[a] /\ QuietAt(a, c) /\ Cardinality(written[a][c]) = 2) =>
            data[a][c] \in written[a][c]

\* C3 as amended: once two distinct values have been stored to one
\* coordinate and no store to it is in progress, every machine word of the
\* coordinate holds the corresponding word of one of the two values; the
\* element as a whole may mix words of both.
C3_WordsOfTheTwo ==
    \A a \in Allocs : \A c \in DOMAIN data[a] :
        (allocated[a] /\ QuietAt(a, c) /\ Cardinality(written[a][c]) = 2) =>
            \A i \in 1..ElemWords :
                \E v \in written[a][c] : WordOf(data[a][c], i) = WordOf(v, i)

\* C3 witness: two values were stored to a coordinate by racing writers, the
\* stores are complete, and the coordinate holds a mix of the two.
C3_Witness ==
    \E a \in Allocs : \E c \in DOMAIN data[a] :
        /\ allocated[a] /\ QuietAt(a, c)
        /\ Cardinality(written[a][c]) = 2
        /\ data[a][c] \notin written[a][c]

\* C4: the allocation exists exactly while at least one handle points to it,
\* its strong count is the number of those handles, and it is freed once,
\* by the drop of the last handle: never twice, never while a handle is
\* alive.
C4_RefCountTeardown ==
    \A a \in Allocs :
        /\ strong[a] = Cardinality(HandlesOf(a))
        /\ allocated[a] <=> HandlesOf(a) # {}
        /\ allocated[a] => deallocs[a] = 0
        /\ deallocs[a] <= 1
        /\ (shape[a] # <<>> /\ HandlesOf(a) = {}) => deallocs[a] = 1
        /\ allocated[a] => DOMAIN data[a] = Coords(shape[a])

\* C4 witness: the original handle was dropped while its clone lives on and
\* still reads the buffer.
C4_Witness ==
    /\ ~Live(1) /\ Live(2) /\ allocated[ptr[2]]
    /\ rviews[2] # {} /\ op[2].pc = "read"

\* C4 witness of the teardown: every handle is dropped and the buffer has
\* been freed once.
C4_Teardown == (\A h \in Handles : ~Live(h)) /\ deallocs[1] = 1

\* C5: whatever is borrowed from a handle or in progress through it (a read
\* view, a mutable view, an element access) belongs to a live handle whose
\* allocation has not been freed.
C5_NoViewOutlivesStorage ==
    \A h \in Handles :
        (mview[h] # NoView \/ rviews[h] # {} \/ op[h] # Idle) =>
            /\ Live(h)
            /\ allocated[ptr[h]] /\ deallocs[ptr[h]] = 0
            /\ op[h] # Idle => op[h].alloc = ptr[h]

\* C5 witness: a store through a clone's mutable view is in progress after
\* the original handle has been dropped.
C5_Witness ==
    ~Live(1) /\ Live(2) /\ mview[2] # NoView /\ op[2].pc = "write"

\* No store to the cell is in progress.
CellQuiet == \A h \in Handles : cop[h].pc # "write"

\* C6: a cell created with default() reads as T's default through every clone
\* until a store to it begins, and once a store that overlapped no other store
\* is complete, every clone reads the value it stored.
C6_CellTransparency ==
    /\ clast = NoWrite =>
          /\ \A h \in Handles : CellLive(h) => CellPeek(h) = Default
          /\ cret # NoRet => cret[3] = Default
    /\ (clast # NoWrite /\ clast.alone /\ CellQuiet) =>
          \A h \in Handles : CellLive(h) => CellPeek(h) = clast.val

\* C6 witness: the value 2 stored through one clone has just been read
\* through another clone.
C6_Witness ==
    /\ clast # NoWrite /\ clast.alone /\ CellQuiet /\ clast.val = 2
    /\ cret # NoRet /\ cret[2] # clast.by /\ cret[3] = 2

\* C7: no operation looks at what other handles lend out.  A handle that is
\* not itself borrowed always gets its mutable view or in-range mutable
\* sub-view, and a store through a mutable view is always accepted and
\* carried out, whatever views and stores of other handles are alive.
C7_NoExclusion ==
    \A h \in Handles :
        /\ (Ready(h) /\ ExclBorrowOk(h)) =>
              /\ ENABLED (ViewMut(h) /\ mview'[h] = FullView)
              /\ \A a \in 0..MaxAxis : \A i \in 0..MaxIndex :
                    (a < Len(shape[ptr[h]]) /\ i < shape[ptr[h]][a + 1]) =>
                        ENABLED (SubviewMut(h, a, i) /\ mview'[h] = SubView(a, i))
        /\ (Ready(h) /\ mview[h] # NoView) =>
              \A p \in ViewCoords(shape[ptr[h]], mview[h]) : \A v \in WriteVals :
                  /\ ENABLED (WriteElem(h, p, v) /\ ~panicked'[h])
                  /\ ENABLED (BeginWrite(h, p, v) /\ ~panicked'[h])
        /\ (Live(h) /\ op[h].pc = "write") =>
              ENABLED (StoreWord(h) /\ ~panicked'[h])

\* C7 witness: two handles hold mutable views at once and each is in the
\* middle of a store to the same coordinate.
C7_Witness ==
    \E h, g \in Handles :
        /\ h # g /\ mview[h] # NoView /\ mview[g] # NoView
        /\ op[h].pc = "write" /\ op[g].pc = "write"
        /\ op[h].coord = op[g].coord

\* The request subview(axis a, index i) on handle h is out of bounds.
OutOfBounds(h, a, i) ==
    Live(h) /\ (a >= Len(shape[ptr[h]]) \/ i >= shape[ptr[h]][a + 1])

\* C8: a sub-view request with an axis or index out of bounds panics at the
\* request: no view is handed out and the elements, the shape and the
\* handles are as before.
C8_OutOfBoundsFails ==
    [][\A h \in Handles : \A a \in 0..MaxAxis : \A i \in 0..MaxIndex :
         (OutOfBounds(h, a, i) /\ (Subview(h, a, i) \/ SubviewMut(h, a, i))) =>
            /\ ret' = <<"panic">> /\ panicked'[h]
            /\ mview' = mview /\ rviews' = rviews
            /\ data' = data /\ shape' = shape
            /\ ptr' = ptr /\ strong' = strong /\ allocated' = allocated]_vars

\* C8 witness: a sub-view request has just panicked.
C8_Witness == ret = <<"panic">> /\ \E h \in Handles : panicked[h]

\* C9: no step changes the dimensionality or the extents of the buffer, nor
\* the set of its coordinates; only element values change.
C9_ShapeInvariant ==
    [][\A a \in Allocs :
         shape'[a] = shape[a] /\ DOMAIN data'[a] = DOMAIN data[a]]_vars

\* C9 witness: a handle holds a mutable sub-view and an element differs from
\* the one the buffer was constructed with.
C9_Witness ==
    \E h \in Handles :
        /\ mview[h] # NoView /\ mview[h][1] = "sub"
        /\ \E c \in DOMAIN data[ptr[h]] : data[ptr[h]][c] # Zero

\* The step just taken returned an element read.
ReadReturned == Len(ret) = 4 /\ ret[1] = "value"

\* C10 as stated: a read returns the value the coordinate held at first or
\* one of the values stored to it.
C10_ReadIsSomeValue ==
    ReadReturned => ret[4] \in ({Zero} \cup written[ret[2]][ret[3]])

\* C10 as amended: every machine word of the value a read returns is the
\* corresponding word of the value the coordinate held at first or of one of
\* the values stored to it; the value as a whole may mix words of several.
C10_ReadWordsAreSomeValue ==
    ReadReturned =>
        \A i \in 1..ElemWords :
            \E v \in ({Zero} \cup written[ret[2]][ret[3]]) :
                WordOf(ret[4], i) = WordOf(v, i)

\* C10 witness: a read racing with a store has returned a value that is
\* neither the first value nor any value stored.
C10_Witness ==
    ReadReturned /\ ret[4] \notin ({Zero} \cup written[ret[2]][ret[3]])

\* The allocations that exist.
Buffers == {a \in Allocs : allocated[a]}

\* C12: a step in which a handle g comes into being is a clone of a live
\* handle h that leaves every element, the shape and the layout unchanged,
\* creates no allocation, binds g to the allocation of h, and raises the
\* number of handles on that allocation, and its strong count, by exactly one.
C12_CloneSharesStorage ==
    [][\A g \in Handles :
         (~Live(g) /\ Live(g)') =>
            \E h \in Handles \ {g} :
                /\ Live(h) /\ ptr'[g] = ptr[h] /\ ptr'[h] = ptr[h]
                /\ data' = data /\ shape' = shape /\ strides' = strides
                /\ Buffers' = Buffers
                /\ HandlesOf(ptr[h])' = HandlesOf(ptr[h]) \cup {g}
                /\ strong'[ptr[h]] = strong[ptr[h]] + 1
                /\ \A a \in Allocs \ {ptr[h]} : strong'[a] = strong[a]]_vars

\* C12 witness: a handle was cloned after an element had been written: two
\* handles share the only allocation, whose strong count is 2, and the clone
\* reads the written element.
C12_Witness ==
    \E h, g \in Handles :
        /\ h # g /\ Live(h) /\ ptr[g] = ptr[h] /\ strong[ptr[h]] = 2
        /\ Cardinality(Buffers) = 1
        /\ mview[h] = NoView /\ rviews[g] # {}
        /\ ReadReturned /\ ret[2] = ptr[g] /\ ret[4] = Pattern(1)

\* The coordinates of an array of extents sh whose index on axis a is i.
Slab(sh, a, i) == {c \in CoordsOf[sh] : c[a + 1] = i}

\* Sub-view v of handle h exposes exactly the slab of its axis and index: its
\* positions have one index less than the buffer's coordinates, and dropping
\* the axis from a coordinate of the slab gives the position that reads it.
Exposes(h, v) ==
    LET sh == shape[ptr[h]]
    IN  /\ \A p \in ViewCoords(sh, v) :
              /\ Len(p) = Len(sh) - 1
              /\ BufCoord(v, p) \in Slab(sh, v[2], v[3])
              /\ RemoveAxis(BufCoord(v, p), v[2]) = p
        /\ \A c \in Slab(sh, v[2], v[3]) :
              /\ RemoveAxis(c, v[2]) \in ViewCoords(sh, v)
              /\ Peek(h, v, RemoveAxis(c, v[2])) = data[ptr[h]][c]

\* Coordinate c of the buffer of h is the one with index v[3] on axis v[2]
\* and the indices of p elsewhere.
Addresses(h, v, p, c) ==
    c \in Slab(shape[ptr[h]], v[2], v[3]) /\ RemoveAxis(c, v[2]) = p

\* Every handle on allocation a that holds a view of the whole buffer reads x
\* at coordinate c through it.
FullViewsShow(a, c, x) ==
    \A g \in HandlesOf(a) :
        FullView \in ViewsOf(g) => Peek(g, FullView, c) = x

\* C15: a sub-view handed out for an in-range axis and index exposes exactly
\* the elements whose coordinate on that axis is the index, with one
\* dimension less; a store through a mutable sub-view at position p goes to
\* the coordinate with the index inserted at the axis into p, changes no
\* other element, and is what the whole-buffer view of every clone shows.
C15_SubviewAddressing ==
    [][\A h \in Handles :
         /\ \A v \in ViewsOf(h)' \ ViewsOf(h) : v[1] = "sub" => Exposes(h, v)'
         /\ (Live(h) /\ mview[h] # NoView /\ mview[h][1] = "sub") =>
               \A c \in DOMAIN data[ptr[h]] :
                 \A p \in AllPositions : \A x \in WriteVals :
                   Addresses(h, mview[h], p, c) =>
                     /\ WriteElem(h, p, x) =>
                           /\ data'[ptr[h]][c] = x
                           /\ FullViewsShow(ptr[h], c, x)'
                           /\ \A d \in DOMAIN data[ptr[h]] \ {c} :
                                 data'[ptr[h]][d] = data[ptr[h]][d]
                     /\ BeginWrite(h, p, x) =>
                           /\ op'[h].alloc = ptr[h] /\ op'[h].coord = c
                           /\ data' = data]_vars

\* C15 witness: a handle holds a mutable sub-view at a non-zero index, the
\* only element written is one of that sub-view, and a clone holding a view
\* of the whole buffer has just read it at the inserted coordinate.
C15_Witness ==
    \E h, g \in Handles : \E c \in AllPositions :
        /\ h # g /\ Live(h) /\ ptr[g] = ptr[h]
        /\ mview[h] # NoView /\ mview[h][1] = "sub" /\ mview[h][3] > 0
        /\ c \in Slab(shape[ptr[h]], mview[h][2], mview[h][3])
        /\ \A d \in DOMAIN data[ptr[h]] :
              data[ptr[h]][d] = (IF d = c THEN Pattern(1) ELSE Zero)
        /\ rviews[g] = {FullView}
        /\ ret = <<"value", ptr[h], c, Pattern(1)>>

\* This step is a store, of a whole element or of one of its words, by h to
\* coordinate c of its buffer.
StoresTo(h, c) ==
    \/ op[h].pc = "write" /\ op[h].coord = c /\ StoreWord(h)
    \/ /\ Live(h) /\ mview[h] # NoView
       /\ \E p \in AllPositions : \E x \in WriteVals :
             BufCoord(mview[h], p) = c /\ WriteElem(h, p, x)

\* C16: a store by a handle to coordinate c of its buffer changes no element
\* at any other coordinate and no element of any other buffer; what every
\* handle reads at the other coordinates through each of its views is what
\* it read before, and the shape is as before.
C16_WriteFrame ==
    [][\A h \in Handles : \A c \in AllPositions :
         StoresTo(h, c) =>
            /\ \A a \in Allocs : \A d \in DOMAIN data[a] :
                  (a # ptr[h] \/ d # c) => data'[a][d] = data[a][d]
            /\ \A g \in Handles :
                  Live(g) =>
                    \A w \in ViewsOf(g) :
                      \A p \in ViewCoords(shape[ptr[g]], w) :
                        BufCoord(w, p) # c => Peek(g, w, p)' = Peek(g, w, p)
            /\ shape' = shape /\ mview' = mview /\ rviews' = rviews]_vars

\* C16 witness: two clones hold mutable views and each is in the middle of
\* a store, one word done, to a coordinate of its own; the coordinates not
\* stored to still hold the element the buffer was constructed with.
C16_Witness ==
    \E h, g \in Handles :
        /\ h # g /\ Live(h) /\ ptr[g] = ptr[h]
        /\ mview[h] # NoView /\ mview[g] # NoView
        /\ op[h].pc = "write" /\ op[g].pc = "write"
        /\ op[h].next > 1 /\ op[g].next > 1
        /\ op[h].coord # op[g].coord
        /\ data[ptr[h]][op[h].coord] # Zero /\ data[ptr[h]][op[g].coord] # Zero
        /\ \A d \in DOMAIN data[ptr[h]] \ {op[h].coord, op[g].coord} :
              data[ptr[h]][d] = Zero

\* Coordinate d comes before coordinate c in row-major order.
Before(d, c) ==
    \E k \in 1..Len(c) : d[k] < c[k] /\ \A j \in 1..(k - 1) : d[j] = c[j]

\* The 0-based position of coordinate c in the row-major enumeration of the
\* coordinates of an array of extents sh.
Rank(sh, c) == Cardinality({d \in CoordsOf[sh] : Before(d, c)})

\* The elements of allocation a lie in memory one after the other in
\* row-major order.
Contiguous(a) ==
    \A c \in DOMAIN data[a] : Offset(strides[a], c) = Rank(shape[a], c)

\* C13: as_slice returns Some only for a contiguous buffer, and then the
\* slice lists all elements in row-major order: at the rank of each
\* coordinate it holds what the buffer holds there, which, once the stores
\* to the coordinate are complete, is the one value stored to it by whichever
\* clone, or the element the buffer was constructed with if none was.  It
\* returns None only for a buffer that is not contiguous.
C13_FlatSlice ==
    /\ (Len(ret) = 3 /\ ret[1] = "some") =>
          LET a == ret[2]
              sl == ret[3]
          IN  /\ Contiguous(a)
              /\ Len(sl) = Cardinality(DOMAIN data[a])
              /\ \A c \in DOMAIN data[a] :
                    LET x == sl[Rank(shape[a], c) + 1]
                    IN  /\ x = data[a][c]
                        /\ written[a][c] = {} => x = initial[a][c]
                        /\ QuietAt(a, c) =>
                              \A v \in RaceVals : written[a][c] = {v} => x = v
    /\ (Len(ret) = 2 /\ ret[1] = "none") => ~Contiguous(ret[2])

\* C13 witness: one pattern was stored at the first coordinate and another
\* at the last through mutable views of the clones, and as_slice has just
\* returned them in row-major order with the untouched elements in between.
C13_Witness ==
    \E h, g \in Handles : \E c1, c2 \in AllPositions :
        /\ h # g /\ Live(h) /\ ptr[g] = ptr[h]
        /\ c1 \in DOMAIN data[ptr[h]] /\ c2 \in DOMAIN data[ptr[h]]
        /\ Rank(shape[ptr[h]], c1) = 0 /\ Rank(shape[ptr[h]], c2) = 3
        /\ written[ptr[h]][c1] = {Pattern(1)}
        /\ written[ptr[h]][c2] = {Pattern(2)}
        /\ mview[h] # NoView /\ mview[g] = NoView
        /\ ret = <<"some", ptr[h], <<Pattern(1), Zero, Zero, Pattern(2)>>>>

\* as_slice has just returned None.
C13_NoneReturned == Len(ret) = 2 /\ ret[1] = "none"

\* C14: called with 0.0 or with a number below zero by less than
\* NEGATIVE_TOLERANCE, safe_ln returns a finite negative number: neither
\* negative infinity nor NaN.
C14_SafeLnAtZero ==
    (lnRes # NoRet /\ lnArg <= 0 /\ lnArg > 0 - NEGATIVE_TOLERANCE) =>
        /\ lnRes[1] = "finite"
        /\ lnRes[2] < 0

\* C14 witness: safe_ln was called with the smallest number still above
\* -NEGATIVE_TOLERANCE and returned a finite negative number.
C14_Witness ==
    /\ lnArg = 1 - NEGATIVE_TOLERANCE /\ lnArg < 0
    /\ lnRes # NoRet /\ lnRes[1] = "finite" /\ lnRes[2] < 0

\* safe_ln has returned a number that is not negative, negative infinity,
\* or NaN.
C14_OtherResults ==
    /\ lnRes # NoRet
    /\ \/ lnRes = <<"finite", 0>> /\ lnArg + NEGATIVE_TOLERANCE >= One
       \/ lnRes = <<"-inf">> /\ lnArg = 0 - NEGATIVE_TOLERANCE
       \/ lnRes = <<"nan">> /\ lnArg < 0 - NEGATIVE_TOLERANCE

\* C18: while a mutable view borrowed from a handle is alive, no read view of
\* that handle is, and no step hands out another mutable view or a read view
\* of it, clones it or drops it; every mutable view belongs to a live handle
\* of its buffer, so the mutable views of one buffer are at most as many as
\* its handles.  While the reference handed out by deref_mut on a cell
\* handle is alive, no step clones or drops that handle or starts another
\* access through it.
C18_PerHandleExclusivity ==
    [][\A h \in Handles :
         /\ mview[h] # NoView =>
               /\ Live(h) /\ rviews[h] = {}
               /\ mview'[h] \in {mview[h], NoView}
               /\ rviews'[h] = {}
               /\ ptr'[h] = ptr[h]
               /\ \A g \in Handles : ~Clone(h, g)
         /\ \A a \in Allocs :
               Cardinality({g \in Handles : mview[g] # NoView /\ ptr[g] = a})
                   <= strong[a]
         /\ cop[h].pc = "write" =>
               /\ cptr'[h] = cptr[h]
               /\ \A g \in Handles : ~CellClone(h, g)
               /\ \/ cop'[h] = Idle
                  \/ /\ cop'[h].pc = "write" /\ cop'[h].val = cop[h].val
                     /\ cop'[h].next >= cop[h].next]_vars

\* C18 witness: two handles of one buffer each lend a mutable view, neither
\* lends a read view, and a cell handle is in the middle of an assignment
\* through deref_mut.
C18_Witness ==
    \E h, g \in Handles :
        /\ h # g /\ Live(h) /\ ptr[g] = ptr[h]
        /\ mview[h] = FullView /\ mview[g] # NoView /\ mview[g][1] = "sub"
        /\ rviews[h] = {} /\ rviews[g] = {}
        /\ \E k \in Handles : cop[k].pc = "write" /\ cop[k].next > 1

\* Handles h and g have each made one increment, of coordinate c of
\* allocation a, both are complete, and no other handle has incremented c.
TwoIncrements(h, g, a, c) ==
    /\ h # g /\ op[h] = Idle /\ op[g] = Idle
    /\ Len(incs[h]) = 1 /\ Len(incs[g]) = 1
    /\ incs[h][1].alloc = a /\ incs[h][1].coord = c
    /\ incs[g][1].alloc = a /\ incs[g][1].coord = c
    /\ \A k \in Handles \ {h, g} :
          \A n \in 1..Len(incs[k]) :
              ~(incs[k][n].alloc = a /\ incs[k][n].coord = c)

\* C17 as stated: after two workers have each made one increment of the
\* same coordinate, the coordinate holds the element it started with plus
\* one or plus two.
C17_OneOrTwoMore ==
    \A h, g \in Handles : \A a \in Allocs : \A c \in AllPositions :
        (allocated[a] /\ TwoIncrements(h, g, a, c)) =>
            data[a][c] \in {initial[a][c] + 1, initial[a][c] + 2}

\* C17 as amended: after two workers have each made one increment of the
\* same coordinate, each by one load and one store of the whole element, the
\* coordinate holds the element it started with plus one or plus two.
C17_OneOrTwoMoreIfWhole ==
    \A h, g \in Handles : \A a \in Allocs : \A c \in AllPositions :
        (allocated[a] /\ TwoIncrements(h, g, a, c)
           /\ incs[h][1].whole /\ incs[g][1].whole) =>
            data[a][c] \in {initial[a][c] + 1, initial[a][c] + 2}

\* C17 witness: an update is lost.  Two workers have each made one increment
\* of the same coordinate by one load and one store of the whole element,
\* and the coordinate holds only one more than it started with.
C17_Witness ==
    \E h, g \in Handles : \E a \in Allocs : \E c \in AllPositions :
        /\ allocated[a] /\ TwoIncrements(h, g, a, c)
        /\ incs[h][1].whole /\ incs[g][1].whole
        /\ data[a][c] = initial[a][c] + 1

\* Both increments take effect.
C17_BothCount ==
    \E h, g \in Handles : \E a \in Allocs : \E c \in AllPositions :
        /\ allocated[a] /\ TwoIncrements(h, g, a, c)
        /\ incs[h][1].whole /\ incs[g][1].whole
        /\ data[a][c] = initial[a][c] + 2

\* h's worker is in the middle of an element access.
Busy(h) == op[h] # Idle

\* The step of h's worker that carries its element access on.
Finish(h) == StoreWord(h) \/ LoadWord(h)

\* Every operation h's own borrows allow can be taken now, and an element
\* access h's worker is in the middle of can be carried on, whatever the
\* other workers hold or are in the middle of.
NothingToWaitFor(h) ==
    /\ (Live(h) /\ op[h].pc = "write") => ENABLED StoreWord(h)
    /\ (Live(h) /\ op[h].pc = "read") => ENABLED LoadWord(h)
    /\ (Ready(h) /\ SharedBorrowOk(h)) =>
          /\ \A g \in Handles : ~Live(g) => ENABLED Clone(h, g)
          /\ ENABLED AsSlice(h)
          /\ (rviews[h] = {}) =>
                /\ ENABLED View(h)
                /\ \A a \in 0..MaxAxis : \A i \in 0..MaxIndex :
                      ENABLED Subview(h, a, i)
    /\ (Ready(h) /\ ExclBorrowOk(h)) =>
          /\ ENABLED ViewMut(h)
          /\ \A a \in 0..MaxAxis : \A i \in 0..MaxIndex :
                ENABLED SubviewMut(h, a, i)
    /\ Ready(h) =>
          /\ \A v \in ViewsOf(h) : \A p \in ViewCoords(shape[ptr[h]], v) :
                ENABLED ReadElem(h, v, p) /\ ENABLED BeginRead(h, v, p)
          /\ mview[h] # NoView =>
                \A p \in ViewCoords(shape[ptr[h]], mview[h]) :
                  \A x \in WriteVals :
                    ENABLED WriteElem(h, p, x) /\ ENABLED BeginWrite(h, p, x)
    /\ (Live(h) /\ ~Busy(h)) =>
          /\ mview[h] # NoView => ENABLED ReleaseViewMut(h)
          /\ \A v \in rviews[h] : ENABLED ReleaseView(h, v)
          /\ CanDrop(h) => ENABLED Drop(h)

\* C11: no operation waits for another worker.  At every moment each
\* operation a handle's own borrows allow can be taken, so a worker holding
\* a handle can always take a step; and if the worker of a handle keeps
\* taking its steps, every element access it starts completes, whether or
\* not the other workers ever take another step.
C11_NonBlocking ==
    /\ [](\A h \in Handles : NothingToWaitFor(h))
    /\ \A h \in Handles : WF_vars(Finish(h)) => (Busy(h) ~> ~Busy(h))

\* C11 witness: a worker is in the middle of a store while the other
\* worker, holding a mutable view of the same buffer, is in the middle of a
\* store to the same coordinate.
C11_Witness ==
    \E h, g \in Handles :
        /\ h # g /\ Live(h) /\ ptr[g] = ptr[h]
        /\ mview[h] # NoView /\ mview[g] # NoView
        /\ op[h].pc = "write" /\ op[g].pc = "write"
        /\ op[h].coord = op[g].coord
        /\ op[h].next = 1 /\ op[g].next > 1

=============================================================================
